---------------------------- MODULE Spec2Model ----------------------------
(***************************************************************************)
(* Priority-based signal arbitration of the adaptive traffic light system. *)
(*                                                                         *)
(* Two controllers are modelled, both called SimulationController in the   *)
(* source: the binary ultrasonic one (run_simulation_binary.py) and the    *)
(* queue-length one (run_simulation_queue_based.py).  A behaviour runs one *)
(* of them (variable mode) under the driver loop of main():                *)
(*     traci.simulationStep(); controller.run_step(step); step += 1        *)
(*                                                                         *)
(* Numbers.  The source computes with Python floats.  Here                 *)
(*   - a priority p is held as the integer p * Unit (Unit = 120, so that   *)
(*     wait/120, wait/60 and the floor 0.1 are all exact);                 *)
(*   - a green time g (seconds) is held as g * TimeUnit (TimeUnit = 240,   *)
(*     exact for G_MIN + 7.5 p and G_MIN + 1.5 p);                         *)
(*   - planned_duration, the result of round(g, 1), is held in tenths of a *)
(*     second;                                                             *)
(*   - a distance is in metres, a speed in tenths of a metre per second.   *)
(* round(g, 1) of a binary float whose exact value is a decimal tie x.x5   *)
(* goes up or down with the representation error of the operands, so at a  *)
(* tie the model admits both results; everywhere else it is exact.         *)
(*                                                                         *)
(* Of the metrics total_waiting_time / vehicles_processed and the log      *)
(* lists, which no control decision reads, only the feed reads that        *)
(* compute them are modelled: they can raise.                              *)
(***************************************************************************)
EXTENDS Integers, Naturals, Sequences, FiniteSets, TLC

(***************************************************************************)
(* Configuration constants of the source                                   *)
(***************************************************************************)
G_MIN == 10
G_MAX == 40
YELLOW_TIME == 3
ALL_RED_TIME == 1
NEAR_SENSOR_DISTANCE == 20
FAR_SENSOR_DISTANCE == 50
SENSOR_DELAY == 10
ZONE_NEAR == 25
ZONE_MEDIUM == 60
ZONE_FAR == 100
WEIGHT_NEAR == 3
WEIGHT_MEDIUM == 2
WEIGHT_FAR == 1
\* speed < 0.5 (binary candidate) and speed < 2.0 (queued), in tenths of m/s
STOPPED_SPEED == 5
QUEUED_SPEED == 20
\* anti-monopolization penalties per consecutive green (3.0 and 17.0)
PENALTY_BINARY == 3
PENALTY_QUEUE == 17
\* wait-bonus divisors (seconds) and caps (1.0 and 2.0)
WAIT_DIV_BINARY == 120
WAIT_DIV_QUEUE == 60
WAIT_CAP_BINARY == 1
WAIT_CAP_QUEUE == 2

\* fixed-point denominators
Unit == 120
TimeUnit == 2 * Unit
Tenth == TimeUnit \div 10

\* range(3), the keys of INTERSECTIONS
Approaches == 0 .. 2

(***************************************************************************)
(* Bounds of the model                                                     *)
(***************************************************************************)
\* ticks the driver runs in the general specification
MaxStep == 58
\* ticks between two changes of the traffic in the general specification
HoldTicks == 30
\* ticks the driver runs in the debounce specification
DebounceSteps == 26
\* ticks the driver runs in the fixed-demand scenarios
ScenarioSteps == 200
\* ticks the driver runs in the perception-failure specification
PerceptionSteps == 24
\* ticks the driver runs in the configuration specification
LiveSteps == 100
LongWaitSteps == 150
LongWaitHold == 55
ConfigSteps == 16

Min(a, b) == IF a <= b THEN a ELSE b
Max(a, b) == IF a >= b THEN a ELSE b

VARIABLES
    mode,           \* "binary" or "queue": which controller this run drives
    config,         \* the module constants the run is started with
    horizon,        \* the driver's loop bound (while step < ...)
    hold,           \* per approach: every how many ticks its traffic may change (0: never)
    traffic,        \* per approach: the vehicles on its edge after simulationStep()
    readable,       \* per approach: traci.edge.getLastStepVehicleIDs(edge) returns
                    \*   in this tick (FALSE: it raises)
    failed,         \* an exception has left run_step and ended the driver's loop
    step,           \* the driver's tick counter
    intersections,  \* SimulationController.intersections: idx -> IntersectionState
    active_idx,
    is_all_red,
    all_red_start,
    cycle_count,
    near_run,       \* history: consecutive ticks, up to the last one sensed, with
    far_run,        \*   near_detected_now / far_detected_now true (binary mode)
    passed_over,    \* history: winner selections since the approach last won
    owed            \* history: selections lost in a row, counted from one at which the
                    \*   approach's raw demand exceeded a previous winner's score

vars == <<mode, config, horizon, hold, traffic, readable, failed, step, intersections, active_idx,
          is_all_red, all_red_start, cycle_count, near_run, far_run,
          passed_over, owed>>

\* the constants as the source sets them
ReferenceConfig ==
    [G_MIN |-> G_MIN, G_MAX |-> G_MAX,
     NEAR_SENSOR_DISTANCE |-> NEAR_SENSOR_DISTANCE,
     FAR_SENSOR_DISTANCE |-> FAR_SENSOR_DISTANCE]

\* the source edited to G_MIN > G_MAX
InvertedGreen == [ReferenceConfig EXCEPT !.G_MIN = G_MAX, !.G_MAX = G_MIN]

\* the source edited to a negative near radius
NegativeRadius ==
    [ReferenceConfig EXCEPT !.NEAR_SENSOR_DISTANCE = 0 - NEAR_SENSOR_DISTANCE]

(***************************************************************************)
(* Perception inlet: what the feed reports for one approach in one tick    *)
(***************************************************************************)
Vehicle(d, v) == [dist |-> d, speed |-> v]

\* n vehicles, the first at distance d0, gap metres apart, all at speed v
Platoon(n, d0, gap, v) == [k \in 1 .. n |-> Vehicle(d0 + gap * (k - 1), v)]

NoTraffic == << >>
\* stopped inside the far radius only; one vehicle inside the near radius rolls at 0.5 m/s
FarOnly == <<Vehicle(10, 5), Vehicle(50, 4), Vehicle(21, 0)>>
\* stopped on the near radius; one vehicle stopped just beyond the far radius
NearAndFar == <<Vehicle(20, 4), Vehicle(51, 0)>>
\* one queued vehicle in each zone, one at 2.0 m/s, one beyond the far zone
Light == <<Vehicle(25, 19), Vehicle(26, 0), Vehicle(10, 20), Vehicle(100, 0), Vehicle(101, 0)>>
\* five queued vehicles in the near zone
Heavy == Platoon(5, 5, 5, 0)
\* thirteen queued vehicles in the near zone
Jam == Platoon(13, 1, 2, 0)

Feeds(m) == IF m = "binary" THEN {NoTraffic, FarOnly, NearAndFar}
            ELSE {NoTraffic, Light, Jam}

(***************************************************************************)
(* IntersectionState.__init__ (the fields of both variants)                *)
(***************************************************************************)
IntersectionState(idx) ==
    [id |-> idx,
     near_sensor_occupied |-> FALSE,
     far_sensor_occupied |-> FALSE,
     current_light |-> "RED",
     last_green_end |-> 0,
     state_start |-> 0,
     planned_duration |-> 0,
     consecutive_greens |-> 0,
     near_detect_time |-> 0,
     far_detect_time |-> 0,
     vehicles_near |-> 0,
     vehicles_medium |-> 0,
     vehicles_far |-> 0,
     total_queue_length |-> 0]

(***************************************************************************)
(* Binary mode: update_sensors                                             *)
(***************************************************************************)
near_detected_now(vs) ==
    \E k \in 1 .. Len(vs) :
        vs[k].dist <= config.NEAR_SENSOR_DISTANCE /\ vs[k].speed < STOPPED_SPEED

\* variant: the far sensor sees only what lies beyond the near sensor's reach
far_detected_now_beyond(vs) ==
    \E k \in 1 .. Len(vs) :
        /\ vs[k].dist > config.NEAR_SENSOR_DISTANCE
        /\ vs[k].dist <= config.FAR_SENSOR_DISTANCE
        /\ vs[k].speed < STOPPED_SPEED

far_detected_now(vs) ==
    \E k \in 1 .. Len(vs) :
        vs[k].dist <= config.FAR_SENSOR_DISTANCE /\ vs[k].speed < STOPPED_SPEED

\* variant: the else branch leaves the timer running
DetectTimeKept(detected, detect_time, now) ==
    IF detected THEN (IF detect_time = 0 THEN now ELSE detect_time) ELSE detect_time

\* if detect_time == 0: detect_time = step      (else branch: detect_time = 0)
DetectTime(detected, detect_time, now) ==
    IF detected THEN (IF detect_time = 0 THEN now ELSE detect_time) ELSE 0

\* variant: one tick less than SENSOR_DELAY suffices
PersistedEarly(detect_time, now) == (now - detect_time) >= SENSOR_DELAY - 1

\* variant: strictly more than SENSOR_DELAY is needed
PersistedLate(detect_time, now) == (now - detect_time) > SENSOR_DELAY

\* (step - detect_time) >= SENSOR_DELAY, with detect_time as just updated
Persisted(detect_time, now) == (now - detect_time) >= SENSOR_DELAY

\* variant: the flag follows the candidate at once
SensorOccupiedAtOnce(detected, detect_time, now) == detected

SensorOccupied(detected, detect_time, now) ==
    detected /\ Persisted(DetectTime(detected, detect_time, now), now)

update_sensors(inters, feed, now) ==
    [idx \in Approaches |->
        LET inter == inters[idx]
            nearNow == near_detected_now(feed[idx])
            farNow == far_detected_now(feed[idx])
        IN  [inter EXCEPT
                !.near_detect_time = DetectTime(nearNow, inter.near_detect_time, now),
                !.near_sensor_occupied = SensorOccupied(nearNow, inter.near_detect_time, now),
                !.far_detect_time = DetectTime(farNow, inter.far_detect_time, now),
                !.far_sensor_occupied = SensorOccupied(farNow, inter.far_detect_time, now)]]

(***************************************************************************)
(* Queue mode: measure_queue_length                                        *)
(***************************************************************************)
near_count(vs) ==
    Cardinality({k \in 1 .. Len(vs) :
        vs[k].speed < QUEUED_SPEED /\ vs[k].dist <= ZONE_NEAR})

\* variant: "if" for "elif": a near vehicle is counted in the medium zone too
medium_count_overlapping(vs) ==
    Cardinality({k \in 1 .. Len(vs) :
        vs[k].speed < QUEUED_SPEED /\ vs[k].dist <= ZONE_MEDIUM})

medium_count(vs) ==
    Cardinality({k \in 1 .. Len(vs) :
        vs[k].speed < QUEUED_SPEED /\ ~(vs[k].dist <= ZONE_NEAR)
            /\ vs[k].dist <= ZONE_MEDIUM})

far_count(vs) ==
    Cardinality({k \in 1 .. Len(vs) :
        vs[k].speed < QUEUED_SPEED /\ ~(vs[k].dist <= ZONE_NEAR)
            /\ ~(vs[k].dist <= ZONE_MEDIUM) /\ vs[k].dist <= ZONE_FAR})

\* variant: every approach is measured on the edge of approach 0
measure_queue_length_shared(inters, feed) ==
    [idx \in Approaches |->
        [inters[idx] EXCEPT
            !.vehicles_near = near_count(feed[0]),
            !.vehicles_medium = medium_count(feed[0]),
            !.vehicles_far = far_count(feed[0]),
            !.total_queue_length = near_count(feed[0]) + medium_count(feed[0])
                                      + far_count(feed[0])]]

measure_queue_length(inters, feed) ==
    [idx \in Approaches |->
        [inters[idx] EXCEPT
            !.vehicles_near = near_count(feed[idx]),
            !.vehicles_medium = medium_count(feed[idx]),
            !.vehicles_far = far_count(feed[idx]),
            !.total_queue_length = near_count(feed[idx]) + medium_count(feed[idx])
                                      + far_count(feed[idx])]]

(***************************************************************************)
(* get_priority, as priority * Unit                                        *)
(***************************************************************************)
\* min((step - inter.last_green_end) / 120.0, 1.0)
\* variant: the wait bonus without min(., 1.0)
wait_bonus_binary_uncapped(inter, now) ==
    ((now - inter.last_green_end) * Unit) \div WAIT_DIV_BINARY

wait_bonus_binary(inter, now) ==
    Min(((now - inter.last_green_end) * Unit) \div WAIT_DIV_BINARY,
        WAIT_CAP_BINARY * Unit)

\* variant: the weights of the two sensors exchanged
get_priority_binary_swapped(inter, now) ==
    LET sensors == (IF inter.near_sensor_occupied THEN 2 * Unit ELSE 0)
                     + (IF inter.far_sensor_occupied THEN 1 * Unit ELSE 0)
        monopoly_penalty == inter.consecutive_greens * PENALTY_BINARY * Unit
        priority == sensors + wait_bonus_binary(inter, now) - monopoly_penalty
    IN  Max(priority, Unit \div 10)

\* variant: no monopoly penalty
get_priority_binary_unpenalized(inter, now) ==
    LET sensors == (IF inter.near_sensor_occupied THEN 1 * Unit ELSE 0)
                     + (IF inter.far_sensor_occupied THEN 2 * Unit ELSE 0)
        priority == sensors + wait_bonus_binary(inter, now)
    IN  Max(priority, Unit \div 10)

get_priority_binary(inter, now) ==
    LET sensors == (IF inter.near_sensor_occupied THEN 1 * Unit ELSE 0)
                     + (IF inter.far_sensor_occupied THEN 2 * Unit ELSE 0)
        monopoly_penalty == inter.consecutive_greens * PENALTY_BINARY * Unit
        priority == sensors + wait_bonus_binary(inter, now) - monopoly_penalty
    IN  Max(priority, Unit \div 10)

\* variant: the wait is taken with the wrong sign
wait_bonus_queue_reversed(inter, now) ==
    Min(((inter.last_green_end - now) * Unit) \div WAIT_DIV_QUEUE,
        WAIT_CAP_QUEUE * Unit)

\* min((step - inter.last_green_end) / 60.0, 2.0)
wait_bonus_queue(inter, now) ==
    Min(((now - inter.last_green_end) * Unit) \div WAIT_DIV_QUEUE,
        WAIT_CAP_QUEUE * Unit)

\* variant: the zone counts unweighted
queue_priority_unweighted(inter) == inter.total_queue_length * Unit

queue_priority(inter) ==
    (inter.vehicles_near * WEIGHT_NEAR + inter.vehicles_medium * WEIGHT_MEDIUM
        + inter.vehicles_far * WEIGHT_FAR) * Unit

\* variant: no monopoly penalty
get_priority_queue_unpenalized(inter, now) ==
    Max(queue_priority(inter) + wait_bonus_queue(inter, now), Unit \div 10)

get_priority_queue(inter, now) ==
    LET monopoly_penalty == inter.consecutive_greens * PENALTY_QUEUE * Unit
        total_priority == queue_priority(inter) + wait_bonus_queue(inter, now)
                            - monopoly_penalty
    IN  Max(total_priority, Unit \div 10)

\* variant: the score is returned without max(., 0.1)
get_priority_unfloored(m, inters, idx, now) ==
    LET inter == inters[idx]
    IN  IF m = "binary"
        THEN (IF inter.near_sensor_occupied THEN 1 * Unit ELSE 0)
               + (IF inter.far_sensor_occupied THEN 2 * Unit ELSE 0)
               + wait_bonus_binary(inter, now)
               - inter.consecutive_greens * PENALTY_BINARY * Unit
        ELSE queue_priority(inter) + wait_bonus_queue(inter, now)
               - inter.consecutive_greens * PENALTY_QUEUE * Unit

get_priority(m, inters, idx, now) ==
    IF m = "binary" THEN get_priority_binary(inters[idx], now)
    ELSE get_priority_queue(inters[idx], now)

(***************************************************************************)
(* Green time, as seconds * TimeUnit, and round(green_time, 1) in tenths   *)
(***************************************************************************)
\* variant: max(green_time, G_MIN), without the upper limit
ClampBelow(green_time) == Max(green_time, config.G_MIN * TimeUnit)

\* min(max(green_time, G_MIN), G_MAX)
Clamp(green_time) ==
    Min(Max(green_time, config.G_MIN * TimeUnit), config.G_MAX * TimeUnit)

\* G_MIN + (priority * 7.5)
green_time_binary(priority) ==
    Clamp(config.G_MIN * TimeUnit + (priority * 15 * TimeUnit) \div (2 * Unit))

\* G_MIN + (priority * 1.5)
green_time_queue(priority) ==
    Clamp(config.G_MIN * TimeUnit + (priority * 3 * TimeUnit) \div (2 * Unit))

\* round(green_time, 1): the tenths it may give (both neighbours at a decimal tie)
Round1(green_time) ==
    LET q == green_time \div Tenth
        r == green_time % Tenth
    IN  IF 2 * r < Tenth THEN {q}
        ELSE IF 2 * r > Tenth THEN {q + 1}
        ELSE {q, q + 1}

calculate_green_time(m, priority) ==
    Round1(IF m = "binary" THEN green_time_binary(priority)
           ELSE green_time_queue(priority))

(***************************************************************************)
(* run_step: winner selection                                              *)
(***************************************************************************)
\* variant: a later approach with an equal score takes over
BeatsOrEquals(p, top_priority) == p >= top_priority

\* the comparison of the winner loop: if p > top_priority
Beats(p, top_priority) == p > top_priority

\* for i in range(3): p = get_priority(i, step); if p > top_priority: ...
\* acc = [winner, top_priority], before iteration i
RECURSIVE WinnerLoop(_, _, _, _, _)
WinnerLoop(m, inters, now, i, acc) ==
    IF i > 2 THEN acc
    ELSE LET p == get_priority(m, inters, i, now)
         IN  WinnerLoop(m, inters, now, i + 1,
                        IF Beats(p, acc.top_priority)
                        THEN [winner |-> i, top_priority |-> p]
                        ELSE acc)

\* variant: the loop starts from top_priority = 1.0
FindWinnerHighBar(m, inters, now) ==
    WinnerLoop(m, inters, now, 0, [winner |-> -1, top_priority |-> 1 * Unit])

\* winner = -1; top_priority = -1.0; then the loop
FindWinner(m, inters, now) ==
    WinnerLoop(m, inters, now, 0, [winner |-> -1, top_priority |-> -1 * Unit])

\* variant: the state string is stored as commanded
UpperKept(state) == state

\* state.upper()
Upper(state) ==
    CASE state = "r" -> "R"
      [] state = "y" -> "Y"
      [] state = "g" -> "G"
      [] OTHER -> state

\* variant: a command to red is dropped
set_traffic_light_but_red(inters, idx, state) ==
    IF state = "r" THEN inters
    ELSE [inters EXCEPT ![idx].current_light = Upper(state)]

\* set_traffic_light(idx, state): self.intersections[idx].current_light = state.upper()
set_traffic_light(inters, idx, state) ==
    [inters EXCEPT ![idx].current_light = Upper(state)]

\* for i in range(3): if i != winner: set_traffic_light(i, 'r')
RECURSIVE AllOthersRed(_, _, _)
AllOthersRed(inters, winner, i) ==
    IF i > 2 THEN inters
    ELSE AllOthersRed(IF i # winner THEN set_traffic_light(inters, i, "r") ELSE inters,
                      winner, i + 1)

\* variant: the others' counts are left as they are
TrackConsecutiveKept(inters, winner) ==
    [i \in Approaches |->
        IF i = winner
        THEN [inters[i] EXCEPT !.consecutive_greens = @ + 1]
        ELSE inters[i]]

\* inter.consecutive_greens += 1; the others' = 0
\* variant: the two branches exchanged, the winner reset and the others counted
TrackConsecutiveSwapped(inters, winner) ==
    [i \in Approaches |->
        IF i = winner
        THEN [inters[i] EXCEPT !.consecutive_greens = 0]
        ELSE [inters[i] EXCEPT !.consecutive_greens = @ + 1]]

TrackConsecutive(inters, winner) ==
    [i \in Approaches |->
        IF i = winner
        THEN [inters[i] EXCEPT !.consecutive_greens = @ + 1]
        ELSE [inters[i] EXCEPT !.consecutive_greens = 0]]

\* variant: the priority as it was in the winner loop, before the increment
GreenPriorityBeforeIncrement(m, inters, winner, now) ==
    get_priority(m,
                 [i \in Approaches |->
                     IF i = winner
                     THEN [inters[i] EXCEPT !.consecutive_greens = @ - 1]
                     ELSE inters[i]],
                 winner, now)

\* the priority the green time is computed from
GreenPriority(m, inters, winner, now) == get_priority(m, inters, winner, now)

\* the branch "if winner != -1": the intersections it may leave
GiveGreen(m, inters, winner, now) ==
    LET started == [inters EXCEPT ![winner].state_start = now]
        counted == TrackConsecutive(started, winner)
        priority == GreenPriority(m, counted, winner, now)
    IN  {set_traffic_light([counted EXCEPT ![winner].planned_duration = d],
                           winner, "G") :
            d \in calculate_green_time(m, priority)}

\* the branch "if (step - self.all_red_start) >= ALL_RED_TIME" of the gap
\* variant: the winner loop scores the intersections as the last tick left them
SelectWinnerStale(m, inters, now) ==
    UNION {LET reds == AllOthersRed(inters, found.winner, 0)
           IN  IF found.winner # -1
               THEN {[inters |-> after, active |-> found.winner] :
                        after \in GiveGreen(m, reds, found.winner, now)}
               ELSE {[inters |-> reds, active |-> active_idx]} :
             found \in {FindWinner(m, intersections, now)}}

\* found is the result of the winner loop, which runs once
SelectWinner(m, inters, now) ==
    UNION {LET reds == AllOthersRed(inters, found.winner, 0)
           IN  IF found.winner # -1
               THEN {[inters |-> after, active |-> found.winner] :
                        after \in GiveGreen(m, reds, found.winner, now)}
               ELSE {[inters |-> reds, active |-> active_idx]} :
             found \in {FindWinner(m, inters, now)}}

(***************************************************************************)
(* run_step: the traffic light control, after sensing.  sensed is the      *)
(* intersections as update_sensors / measure_queue_length left them.       *)
(***************************************************************************)
\* variant: the green time is planned anew in every tick of the green
MonitorGreenReplanned(inters, idx, now) ==
    LET inter == inters[idx]
        elapsed == now - inter.state_start
        again == CHOOSE d \in calculate_green_time(mode,
                                get_priority(mode, inters, idx, now)) : TRUE
    IN  IF elapsed * 10 >= inter.planned_duration
        THEN [set_traffic_light(inters, idx, "y") EXCEPT ![idx].state_start = now]
        ELSE [inters EXCEPT ![idx].planned_duration = again]

\* variant: the green ends in red, without a yellow
MonitorGreenToRed(inters, idx, now) ==
    LET inter == inters[idx]
        elapsed == now - inter.state_start
    IN  IF elapsed * 10 >= inter.planned_duration
        THEN [set_traffic_light(inters, idx, "r") EXCEPT ![idx].state_start = now]
        ELSE inters

\* GREEN: if elapsed >= inter.planned_duration: yellow, state_start = step
MonitorGreen(inters, idx, now) ==
    LET inter == inters[idx]
        elapsed == now - inter.state_start
    IN  IF elapsed * 10 >= inter.planned_duration
        THEN [set_traffic_light(inters, idx, "y") EXCEPT ![idx].state_start = now]
        ELSE inters

\* variant: the yellow ends only after more than YELLOW_TIME
YellowOverLate(inter, now) == (now - inter.state_start) > YELLOW_TIME

\* YELLOW: if elapsed >= YELLOW_TIME
YellowOver(inter, now) == (now - inter.state_start) >= YELLOW_TIME

\* variant: the end of the green is not recorded
EndYellowUnrecorded(inters, idx, now) == set_traffic_light(inters, idx, "r")

\* variant: the light is left as it is at the end of the yellow
EndYellowLit(inters, idx, now) == [inters EXCEPT ![idx].last_green_end = now]

\* YELLOW over: red, last_green_end = step
EndYellow(inters, idx, now) ==
    [set_traffic_light(inters, idx, "r") EXCEPT ![idx].last_green_end = now]

\* variant: the gap ends only after more than ALL_RED_TIME
GapOverLate(now) == (now - all_red_start) > ALL_RED_TIME

\* variant: the gap ends one tick before ALL_RED_TIME
GapOverEarly(now) == (now - all_red_start) >= ALL_RED_TIME - 1

\* if (step - self.all_red_start) >= ALL_RED_TIME
GapOver(now) == (now - all_red_start) >= ALL_RED_TIME

TrafficLightControl(sensed) ==
    IF is_all_red
    THEN IF GapOver(step)
         THEN /\ is_all_red' = FALSE
              /\ \E out \in SelectWinner(mode, sensed, step) :
                    /\ intersections' = out.inters
                    /\ active_idx' = out.active
              /\ UNCHANGED <<all_red_start, cycle_count>>
         ELSE /\ intersections' = sensed
              /\ UNCHANGED <<active_idx, is_all_red, all_red_start, cycle_count>>
    ELSE IF active_idx # -1
    THEN IF sensed[active_idx].current_light = "G"
         THEN /\ intersections' = MonitorGreen(sensed, active_idx, step)
              /\ UNCHANGED <<active_idx, is_all_red, all_red_start, cycle_count>>
         ELSE IF sensed[active_idx].current_light = "Y"
                   /\ YellowOver(sensed[active_idx], step)
         THEN /\ intersections' = EndYellow(sensed, active_idx, step)
              /\ active_idx' = -1
              /\ is_all_red' = TRUE
              /\ all_red_start' = step
              /\ cycle_count' = cycle_count + 1
         ELSE /\ intersections' = sensed
              /\ UNCHANGED <<active_idx, is_all_red, all_red_start, cycle_count>>
    ELSE /\ intersections' = sensed
         /\ is_all_red' = TRUE
         /\ all_red_start' = step
         /\ UNCHANGED <<active_idx, cycle_count>>

(***************************************************************************)
(* The driver: main()'s loop.  traffic is what simulationStep() left for   *)
(* this tick; the traffic of the next tick is drawn as hold allows.        *)
(***************************************************************************)
\* whether the traffic of approach i may differ in the next tick
MayChange(i) == hold[i] # 0 /\ (step + 1) % hold[i] = 0

\* what the feed may report for approach i in the next tick
NextFeeds(i) == IF MayChange(i) THEN Feeds(mode) ELSE {traffic[i]}

SimulationStep ==
    \E f0 \in NextFeeds(0), f1 \in NextFeeds(1), f2 \in NextFeeds(2) :
        traffic' = [i \in Approaches |-> <<f0, f1, f2>>[i + 1]]

\* try: vehicle_ids = traci.edge.getLastStepVehicleIDs(edge)  except: vehicle_ids = []
vehicle_ids == [i \in Approaches |-> IF readable[i] THEN traffic[i] ELSE NoTraffic]

\* the intersections as the sensing at the head of run_step leaves them
Sensed ==
    IF mode = "binary" THEN update_sensors(intersections, vehicle_ids, step)
    ELSE measure_queue_length(intersections, vehicle_ids)

\* "Track waiting time": for veh_id in traci.edge.getLastStepVehicleIDs(edge),
\* outside any try; it raises when the read of some approach does
WaitingTimeRaises == \E i \in Approaches : ~readable[i]

\* the demand part of a priority, before wait bonus and penalty
raw_demand(inter) ==
    IF mode = "binary"
    THEN (IF inter.near_sensor_occupied THEN 1 * Unit ELSE 0)
           + (IF inter.far_sensor_occupied THEN 2 * Unit ELSE 0)
    ELSE queue_priority(inter)

\* this tick runs the winner selection
SelectionTick == is_all_red /\ GapOver(step)

\* approach b has more raw demand than the score of an approach with greens in a row
OutbidsRepeater(b) ==
    \E a \in Approaches \ {b} :
        /\ Sensed[a].consecutive_greens >= 1
        /\ raw_demand(Sensed[b]) > get_priority(mode, Sensed, a, step)

RunLength(detected, run) == IF detected THEN run + 1 ELSE 0

\* the history variables; the winner of a selection tick is active_idx'
History ==
    /\ near_run' = [i \in Approaches |->
                        RunLength(near_detected_now(vehicle_ids[i]), near_run[i])]
    /\ far_run' = [i \in Approaches |->
                        RunLength(far_detected_now(vehicle_ids[i]), far_run[i])]
    /\ passed_over' = IF SelectionTick
                      THEN [i \in Approaches |->
                               IF i = active_idx' THEN 0 ELSE passed_over[i] + 1]
                      ELSE passed_over
    /\ owed' = IF SelectionTick
               THEN [i \in Approaches |->
                        IF i = active_idx' THEN 0
                        ELSE IF owed[i] > 0 THEN owed[i] + 1
                        ELSE IF OutbidsRepeater(i) THEN 1 ELSE 0]
               ELSE owed

\* the exception of the waiting-time loop leaves run_step after the sensing;
\* main() catches KeyboardInterrupt only, so the loop ends
RunStepRaises(sensed) ==
    /\ intersections' = sensed
    /\ failed' = TRUE
    /\ UNCHANGED <<step, traffic, readable, active_idx, is_all_red,
                   all_red_start, cycle_count, near_run, far_run,
                   passed_over, owed>>

\* run_step to its end, step += 1 and the next traci.simulationStep()
RunStepReturns(sensed) ==
    /\ TrafficLightControl(sensed)
    /\ History
    /\ step' = step + 1
    /\ SimulationStep
    /\ readable' = [i \in Approaches |-> TRUE]
    /\ UNCHANGED failed

\* run_step of run_simulation_binary.py, and step += 1
RunStepBinary ==
    /\ mode = "binary"
    /\ ~failed
    /\ step < horizon
    /\ \E sensed \in {update_sensors(intersections, vehicle_ids, step)} :
          IF WaitingTimeRaises THEN RunStepRaises(sensed) ELSE RunStepReturns(sensed)
    /\ UNCHANGED <<mode, config, horizon, hold>>

\* run_step of run_simulation_queue_based.py, and step += 1
RunStepQueue ==
    /\ mode = "queue"
    /\ ~failed
    /\ step < horizon
    /\ \E sensed \in {measure_queue_length(intersections, vehicle_ids)} :
          IF WaitingTimeRaises THEN RunStepRaises(sensed) ELSE RunStepReturns(sensed)
    /\ UNCHANGED <<mode, config, horizon, hold>>

\* the feed: the vehicle-list read of one approach raises during this tick
ReadFailure ==
    /\ ~failed
    /\ step < horizon
    /\ \A i \in Approaches : readable[i]
    /\ \E i \in Approaches : readable' = [readable EXCEPT ![i] = FALSE]
    /\ UNCHANGED <<mode, config, horizon, hold, traffic, failed, step, intersections,
                   active_idx, is_all_red, all_red_start, cycle_count,
                   near_run, far_run, passed_over, owed>>

\* SimulationController.__init__, and step = 0
InitController ==
    /\ step = 0
    /\ intersections = [i \in Approaches |-> IntersectionState(i)]
    /\ active_idx = -1
    /\ is_all_red = TRUE
    /\ all_red_start = 0
    /\ cycle_count = 0
    /\ readable = [i \in Approaches |-> TRUE]
    /\ failed = FALSE
    /\ near_run = [i \in Approaches |-> 0]
    /\ far_run = [i \in Approaches |-> 0]
    /\ passed_over = [i \in Approaches |-> 0]
    /\ owed = [i \in Approaches |-> 0]

(***************************************************************************)
(* Spec: either controller; the traffic of all approaches may change every *)
(* HoldTicks ticks, to any of the feeds.                                   *)
(***************************************************************************)
Init ==
    /\ mode \in {"binary", "queue"}
    /\ horizon = MaxStep
    /\ hold = [i \in Approaches |-> HoldTicks]
    /\ traffic \in [Approaches -> Feeds(mode)]
    /\ config = ReferenceConfig
    /\ InitController

Next == RunStepBinary \/ RunStepQueue

Spec == Init /\ [][Next]_vars

(***************************************************************************)
(* SpecDebounce: the binary controller; the traffic of one approach        *)
(* changes freely in every tick, that of the others stays as drawn.        *)
(***************************************************************************)
InitDebounce ==
    /\ mode = "binary"
    /\ horizon = DebounceSteps
    /\ \E focus \in Approaches :
          /\ hold = [i \in Approaches |-> IF i = focus THEN 1 ELSE 0]
          /\ traffic \in [Approaches -> Feeds(mode)]
          /\ \A i \in Approaches \ {focus} : traffic[i] \in {NoTraffic, NearAndFar}
    /\ config = ReferenceConfig
    /\ InitController

NextDebounce == RunStepBinary

SpecDebounce == InitDebounce /\ [][NextDebounce]_vars

(***************************************************************************)
(* SpecPerception: either controller under traffic that never changes; in  *)
(* any tick the feed's vehicle-list read of one approach may raise.        *)
(***************************************************************************)
InitPerception ==
    /\ mode \in {"binary", "queue"}
    /\ horizon = PerceptionSteps
    /\ hold = [i \in Approaches |-> 0]
    /\ traffic \in [Approaches -> Feeds(mode)]
    /\ config = ReferenceConfig
    /\ InitController

NextPerception == RunStepBinary \/ RunStepQueue \/ ReadFailure

SpecPerception == InitPerception /\ [][NextPerception]_vars

(***************************************************************************)
(* SpecConfig: either controller under traffic that never changes, started *)
(* with the constants of the source or with an edited set of them.         *)
(***************************************************************************)
InitConfig ==
    /\ mode \in {"binary", "queue"}
    /\ horizon = ConfigSteps
    /\ hold = [i \in Approaches |-> 0]
    /\ traffic \in [Approaches -> Feeds(mode)]
    /\ config \in {ReferenceConfig, InvertedGreen, NegativeRadius}
    /\ InitController

NextConfig == RunStepBinary \/ RunStepQueue

SpecConfig == InitConfig /\ [][NextConfig]_vars

(***************************************************************************)
(* SpecScenario: the queue controller under a demand that never changes.   *)
(***************************************************************************)
\* near = [5, 0, 0]: demand on approach 0 only
DemandOnFirst == <<Heavy, NoTraffic, NoTraffic>>
\* two heavy approaches and a light one
DemandTwoHeavy == <<Heavy, Heavy, Light>>

FixedDemand(d) == [i \in Approaches |-> d[i + 1]]

InitScenario ==
    /\ mode = "queue"
    /\ horizon = ScenarioSteps
    /\ hold = [i \in Approaches |-> 0]
    /\ traffic \in {FixedDemand(DemandOnFirst), FixedDemand(DemandTwoHeavy)}
    /\ config = ReferenceConfig
    /\ InitController

NextScenario == RunStepQueue

SpecScenario == InitScenario /\ [][NextScenario]_vars

(***************************************************************************)
(* SpecLongWait: the binary controller over a run long enough for a wait   *)
(* bonus to reach its cap; the traffic of approach 2 may change every      *)
(* LongWaitHold ticks, that of the others stays as drawn.                  *)
(***************************************************************************)
InitLongWait ==
    /\ mode = "binary"
    /\ horizon = LongWaitSteps
    /\ hold = [i \in Approaches |-> IF i = 2 THEN LongWaitHold ELSE 0]
    /\ traffic \in [Approaches -> Feeds(mode)]
    /\ config = ReferenceConfig
    /\ InitController

NextLongWait == RunStepBinary

SpecLongWait == InitLongWait /\ [][NextLongWait]_vars

(***************************************************************************)
(* SpecLive: either controller under traffic that never changes, the same  *)
(* on one, two or all approaches; the driver's loop calls run_step again   *)
(* whenever it can.                                                        *)
(***************************************************************************)
InitLive ==
    /\ mode \in {"binary", "queue"}
    /\ horizon = LiveSteps
    /\ hold = [i \in Approaches |-> 0]
    /\ \E f \in Feeds(mode), busy \in {{0}, {1, 2}, Approaches} :
          traffic = [i \in Approaches |-> IF i \in busy THEN f ELSE NoTraffic]
    /\ config = ReferenceConfig
    /\ InitController

NextLive == RunStepBinary \/ RunStepQueue

\* while step < steps: controller.run_step(step); step += 1
SpecLive == InitLive /\ [][NextLive]_vars /\ WF_vars(NextLive)

(***************************************************************************)
(* Bounds of the claims                                                    *)
(***************************************************************************)
\* selections an approach may lose in a row before its wait counts as unbounded
StarveCycles == 9
\* selections a rival may lose in a row after outbidding a repeated winner
MonopolyCycles == 6

\* the ticks a score is evaluated at, from a state: step, step + TickStride, ...
TickStride == 7
TickCount == 18

(***************************************************************************)
(* Claims                                                                  *)
(***************************************************************************)
LightOf(i) == intersections[i].current_light
NonRed(i) == LightOf(i) \in {"G", "Y"}
IsRed(i) == LightOf(i) \in {"RED", "R"}

\* C1: in every reachable state at most one approach is GREEN or YELLOW, and
\* every other approach is RED (binary and queue controller).
C1_MutualExclusion ==
    /\ \A i, j \in Approaches : (NonRed(i) /\ NonRed(j)) => i = j
    /\ \A i \in Approaches : NonRed(i) \/ IsRed(i)

\* a second approach is YELLOW after the first one's cycle completed
C1_Witness ==
    \E i, j \in Approaches :
        /\ i # j
        /\ LightOf(i) = "Y"
        /\ LightOf(j) = "R"
        /\ cycle_count >= 1

\* C2: every approach is selected as winner within a bounded number of
\* cycles, whatever the demand on the other approaches: no approach loses
\* more than StarveCycles selections in a row.
C2_BoundedWait == \A i \in Approaches : passed_over[i] <= StarveCycles

\* C3: with fixed demand, a rival whose raw demand exceeds the penalized
\* score of an approach that has won N cycles in a row wins within a bounded
\* number (MonopolyCycles) of the following selections.
C3_MonopolySuppression == \A b \in Approaches : owed[b] <= MonopolyCycles

\* the lowest-indexed approach among those of cands with the largest wait bonus
LongestWaiting(cands) ==
    CHOOSE w \in cands :
        \A o \in cands :
            \/ wait_bonus_queue(Sensed[w], step) > wait_bonus_queue(Sensed[o], step)
            \/ /\ wait_bonus_queue(Sensed[w], step) = wait_bonus_queue(Sensed[o], step)
               /\ w <= o

\* C4: queue mode, constant demand of five near vehicles on approach 0 only.
\* At every selection of the run: approach 0 wins unless it won the cycle
\* before; if it did, its score is at the floor, below the wait bonus of a
\* rival, and the rival that waited longest (the lowest index at a tie) wins
\* that one cycle.
C4_Scenario ==
    [][(traffic = FixedDemand(DemandOnFirst) /\ SelectionTick) =>
          IF Sensed[0].consecutive_greens = 0
          THEN active_idx' = 0
          ELSE /\ get_priority(mode, Sensed, 0, step) = Unit \div 10
               /\ active_idx' = LongestWaiting({1, 2})
               /\ wait_bonus_queue(Sensed[active_idx'], step) > Unit \div 10]_vars

\* approach 0 is green again after approach 1, approach 0 and approach 2 each won
C4_Witness ==
    /\ traffic = FixedDemand(DemandOnFirst)
    /\ cycle_count = 4
    /\ active_idx = 0
    /\ LightOf(0) = "G"
    /\ passed_over[1] = 3
    /\ passed_over[2] = 1

\* C5: the planned duration committed at a selection is the green time of
\* top_priority, the score with which the winner won the winner loop.
C5_GreenFromTopPriority ==
    [][SelectionTick =>
          LET found == FindWinner(mode, Sensed, step)
          IN  intersections'[found.winner].planned_duration
                  \in calculate_green_time(mode, found.top_priority)]_vars

\* C6: every planned duration committed at a GREEN entry lies in
\* [G_MIN, G_MAX]; an approach that is GREEN or YELLOW has one.
C6_GreenTimeInRange ==
    \A i \in Approaches :
        /\ intersections[i].planned_duration # 0 =>
              /\ intersections[i].planned_duration >= G_MIN * 10
              /\ intersections[i].planned_duration <= G_MAX * 10
        /\ NonRed(i) => intersections[i].planned_duration # 0

\* a green of G_MAX seconds, and one below G_MIN + 1
C6_Witness ==
    \E i, j \in Approaches :
        /\ LightOf(i) = "G"
        /\ intersections[i].planned_duration = G_MAX * 10
        /\ intersections[j].planned_duration # 0
        /\ intersections[j].planned_duration < (G_MIN + 1) * 10

\* C7: planned_duration of an approach changes only in the tick in which the
\* approach is selected as winner and enters GREEN.
C7_PlannedFrozen ==
    [][\A i \in Approaches :
          intersections'[i].planned_duration # intersections[i].planned_duration =>
              /\ SelectionTick
              /\ active_idx' = i
              /\ intersections'[i].current_light = "G"]_vars

\* a green planned from a jam is still running, unchanged, with the jam gone
C7_Witness ==
    \E i \in Approaches :
        /\ mode = "queue"
        /\ LightOf(i) = "G"
        /\ intersections[i].planned_duration = G_MAX * 10
        /\ intersections[i].vehicles_near = 0
        /\ step > intersections[i].state_start + 1

\* C8: an occupancy flag is true at a tick only if its candidate was true on
\* that tick and the SENSOR_DELAY ticks before it; a run of SENSOR_DELAY - 1
\* ticks never sets it.
C8_DebounceLowerBound ==
    \A i \in Approaches :
        /\ intersections[i].near_sensor_occupied => near_run[i] >= SENSOR_DELAY + 1
        /\ intersections[i].far_sensor_occupied => far_run[i] >= SENSOR_DELAY + 1

\* a flag is set by a run of exactly SENSOR_DELAY + 1 ticks
C8_Witness ==
    \E i \in Approaches :
        /\ intersections[i].far_sensor_occupied
        /\ far_run[i] = SENSOR_DELAY + 1
        /\ ~intersections[i].near_sensor_occupied
        /\ near_run[i] = SENSOR_DELAY - 1

\* C9 as stated: a candidate true for SENSOR_DELAY consecutive ticks has its
\* flag set on the tick at which the run reaches SENSOR_DELAY ticks.
C9_SetAtDelayTicks ==
    \A i \in Approaches :
        /\ near_run[i] >= SENSOR_DELAY => intersections[i].near_sensor_occupied
        /\ far_run[i] >= SENSOR_DELAY => intersections[i].far_sensor_occupied

\* the ticks of a run that the persistence timer counts: tick 0 is not one,
\* detect_time = 0 being the timer's "not started"
Counted(run) == IF run = step /\ run > 0 THEN run - 1 ELSE run

\* C9 amended: the flag is set on the tick at which the run reaches
\* SENSOR_DELAY + 1 ticks (SENSOR_DELAY seconds after its first tick), one
\* tick later for a run that began at tick 0, and stays set while it lasts.
C9_SetAfterDelay ==
    \A i \in Approaches :
        /\ intersections[i].near_sensor_occupied
              <=> Counted(near_run[i]) >= SENSOR_DELAY + 1
        /\ intersections[i].far_sensor_occupied
              <=> Counted(far_run[i]) >= SENSOR_DELAY + 1

\* a flag set by a run that began after tick 0, on its tick SENSOR_DELAY + 1
C9_Witness ==
    \E i \in Approaches :
        /\ intersections[i].near_sensor_occupied
        /\ near_run[i] = SENSOR_DELAY + 1
        /\ step > near_run[i]

\* C10: in a tick where a candidate is false its flag becomes false and its
\* timer restarts (detect_time = 0), so a flag is never true with fewer than
\* SENSOR_DELAY ticks of true candidate behind it; near and far apart: a
\* false near candidate leaves a running far timer as it is, and conversely.
C10_DebounceReset ==
    [][\A i \in Approaches :
          LET nearNow == near_detected_now(traffic[i])
              farNow == far_detected_now(traffic[i])
              o == intersections[i]
              n == intersections'[i]
          IN  /\ ~nearNow => (~n.near_sensor_occupied /\ n.near_detect_time = 0)
              /\ ~farNow => (~n.far_sensor_occupied /\ n.far_detect_time = 0)
              /\ n.near_sensor_occupied => near_run'[i] >= SENSOR_DELAY
              /\ n.far_sensor_occupied => far_run'[i] >= SENSOR_DELAY
              /\ (farNow /\ o.far_detect_time # 0) =>
                     n.far_detect_time = o.far_detect_time
              /\ (nearNow /\ o.near_detect_time # 0) =>
                     n.near_detect_time = o.near_detect_time]_vars

\* the near signal was reset and runs again while the far flag stayed set
C10_Witness ==
    \E i \in Approaches :
        /\ intersections[i].far_sensor_occupied
        /\ ~intersections[i].near_sensor_occupied
        /\ near_run[i] > 0
        /\ near_run[i] < far_run[i]
        /\ intersections[i].near_detect_time > intersections[i].far_detect_time + SENSOR_DELAY

\* the score of approach i at this tick's selection
ScoreNow(i) == get_priority(mode, Sensed, i, step)

\* C11: the winner of a selection is the lowest-indexed approach among those
\* whose score at the selection tick is maximal: its score is >= every other
\* approach's, and no approach with a smaller index has an equal score.
C11_LowestIndexedMaximum ==
    [][SelectionTick =>
          /\ active_idx' \in Approaches
          /\ \A i \in Approaches :
                /\ ScoreNow(active_idx') >= ScoreNow(i)
                /\ i < active_idx' => ScoreNow(i) # ScoreNow(active_idx')]_vars

\* approach 1 has just won the second selection against approach 2, which
\* has the same counts and has waited as long (approach 0 won the first)
C11_Witness ==
    /\ mode = "queue"
    /\ cycle_count = 1
    /\ active_idx = 1
    /\ step = intersections[1].state_start + 1
    /\ queue_priority(intersections[1]) > 0
    /\ queue_priority(intersections[2]) = queue_priority(intersections[1])
    /\ intersections[1].last_green_end = 0
    /\ intersections[2].last_green_end = 0

\* C12: consecutive_greens changes only at a winner selection; there the
\* winner's count grows by exactly 1 and every other approach's becomes 0; in
\* every other tick all counts stay as they are.
C12_ConsecutiveGreens ==
    [][\A i \in Approaches :
          LET before == intersections[i].consecutive_greens
              after == intersections'[i].consecutive_greens
          IN  IF SelectionTick
              THEN after = (IF i = active_idx' THEN before + 1 ELSE 0)
              ELSE after = before]_vars

\* approach j won after approach i, whose count went back to 0, and the
\* counts then stayed through j's green into its yellow
C12_Witness ==
    \E i, j \in Approaches :
        /\ i # j
        /\ intersections[i].last_green_end > 0
        /\ intersections[i].consecutive_greens = 0
        /\ intersections[j].consecutive_greens = 1
        /\ LightOf(j) = "Y"

\* the ticks, from now on, at which the scores of a state are looked at
Ticks == {step + k * TickStride : k \in 0 .. TickCount}

\* get_priority of approach i at tick t, its fields as they are now
ScoreAt(i, t) == get_priority(mode, intersections, i, t)

\* C13: get_priority(idx, step) >= 0.1 for every approach, in every reachable
\* state of both controllers, at the tick of the state, with the fields as
\* sensed in it, and at every later tick.
C13_Floor ==
    \A i \in Approaches :
        /\ ScoreNow(i) >= Unit \div 10
        /\ \A t \in Ticks : ScoreAt(i, t) >= Unit \div 10

\* an approach with demand whose penalty holds its score at the floor
C13_Witness ==
    \E i \in Approaches :
        /\ intersections[i].consecutive_greens >= 1
        /\ raw_demand(intersections[i]) > 0
        /\ ScoreAt(i, step) = Unit \div 10

\* C14: with the detection fields, last_green_end and consecutive_greens of
\* an approach held fixed, its score never decreases from one tick to a later
\* one, from last_green_end on (stated for successive ticks of Ticks, which
\* gives it for every pair of them).
C14_StarvationMonotone ==
    \A i \in Approaches :
        /\ intersections[i].last_green_end <= step
        /\ \A t \in Ticks : ScoreAt(i, t + TickStride) >= ScoreAt(i, t)

\* a score that grows with the wait and then stays at its capped value
C14_Witness ==
    \E i \in Approaches :
        /\ intersections[i].last_green_end > 0
        /\ ScoreAt(i, step + TickStride) > ScoreAt(i, step)
        /\ ScoreAt(i, step + TickCount * TickStride)
              = ScoreAt(i, step + (TickCount - 1) * TickStride)
        /\ ScoreAt(i, step + TickCount * TickStride) > ScoreAt(i, step)

\* C16: in a tick in which the vehicle-list read of one approach fails,
\* run_step still completes: the approach is sensed as having no vehicles, the
\* others as usual, the phase logic of the tick runs on that sensing and the
\* driver goes on to the next tick.
C16_PerceptionFailureContained ==
    [][(\E i \in Approaches : ~readable[i]) =>
          /\ ~failed'
          /\ step' = step + 1
          /\ TrafficLightControl(Sensed)]_vars

\* a configuration the specification calls valid
ValidConfig ==
    /\ config.G_MIN <= config.G_MAX
    /\ config.NEAR_SENSOR_DISTANCE >= 0
    /\ config.FAR_SENSOR_DISTANCE >= 0

\* C17: an invalid configuration (G_MIN > G_MAX, a negative sensor radius) is
\* rejected at the construction of the controller: no tick is ever run with it.
C17_InvalidConfigRejected == ~ValidConfig => step = 0

\* the vehicles of vs slower than 2.0 m/s, and those of them with lo < dist <= hi
Slow(vs) == {k \in 1 .. Len(vs) : vs[k].speed < QUEUED_SPEED}
SlowWithin(vs, lo, hi) == {k \in Slow(vs) : lo < vs[k].dist /\ vs[k].dist <= hi}

\* C18 as stated: after measure_queue_length the three zone counts of an
\* approach add up to total_queue_length, which is the number of its vehicles
\* slower than 2.0 m/s.
C18_AllSlowCounted ==
    [][RunStepQueue =>
          \A i \in Approaches :
              LET n == intersections'[i]
              IN  /\ n.vehicles_near + n.vehicles_medium + n.vehicles_far
                        = n.total_queue_length
                  /\ n.total_queue_length = Cardinality(Slow(traffic[i]))]_vars

\* C18 amended: every vehicle the feed returns for the approach that is
\* slower than 2.0 m/s and at most ZONE_FAR from the intersection is counted in exactly one zone, by its distance; the three
\* counts add up to total_queue_length, the number of slow vehicles within
\* ZONE_FAR; slow vehicles beyond ZONE_FAR and faster ones are counted nowhere.
C18_SlowInZonesCounted ==
    [][RunStepQueue =>
          \A i \in Approaches :
              LET n == intersections'[i]
                  vs == vehicle_ids[i]
              IN  /\ n.vehicles_near = Cardinality(SlowWithin(vs, -1, ZONE_NEAR))
                  /\ n.vehicles_medium
                        = Cardinality(SlowWithin(vs, ZONE_NEAR, ZONE_MEDIUM))
                  /\ n.vehicles_far
                        = Cardinality(SlowWithin(vs, ZONE_MEDIUM, ZONE_FAR))
                  /\ n.vehicles_near + n.vehicles_medium + n.vehicles_far
                        = n.total_queue_length
                  /\ n.total_queue_length
                        = Cardinality(SlowWithin(vs, -1, ZONE_FAR))]_vars

\* an approach measured under the light feed: of its five vehicles one is in
\* each zone, one is at 2.0 m/s and one is slow beyond ZONE_FAR
C18_Witness ==
    \E i \in Approaches :
        /\ mode = "queue"
        /\ step >= 1
        /\ step < HoldTicks
        /\ traffic[i] = Light
        /\ Cardinality(Slow(traffic[i])) = 4
        /\ intersections[i].vehicles_near = 1
        /\ intersections[i].vehicles_medium = 1
        /\ intersections[i].vehicles_far = 1
        /\ intersections[i].total_queue_length = 3

\* 1 for a true flag, 0 for a false one
Indicator(flag) == IF flag THEN 1 ELSE 0

\* the binary score as the claim writes it, times Unit:
\* max(0.1, 1.0 [near] + 2.0 [far] + min((t - last_green_end) / 120, 1.0)
\*            - 3.0 consecutive_greens)
StatedBinaryScore(inter, t) ==
    Max(Unit \div 10,
        1 * Unit * Indicator(inter.near_sensor_occupied)
          + 2 * Unit * Indicator(inter.far_sensor_occupied)
          + Min(((t - inter.last_green_end) * Unit) \div 120, 1 * Unit)
          - 3 * Unit * inter.consecutive_greens)

\* C19: in binary mode get_priority is the stated score, for the fields of
\* every approach in every reachable state, at the tick of the state (on the
\* fields as sensed in it) and at every later tick.
C19_BinaryScore ==
    mode = "binary" =>
        \A i \in Approaches :
            /\ ScoreNow(i) = StatedBinaryScore(Sensed[i], step)
            /\ \A t \in Ticks : ScoreAt(i, t) = StatedBinaryScore(intersections[i], t)

\* the far flag alone gives a score between 2.0 and 3.0 that reaches 3.0 with
\* the capped wait, while the approach that is green is held at the floor
C19_Witness ==
    \E i, j \in Approaches :
        /\ mode = "binary"
        /\ intersections[i].far_sensor_occupied
        /\ ~intersections[i].near_sensor_occupied
        /\ ScoreAt(i, step) > 2 * Unit
        /\ ScoreAt(i, step) < 3 * Unit
        /\ ScoreAt(i, step + TickCount * TickStride) = 3 * Unit
        /\ intersections[j].consecutive_greens = 1
        /\ ScoreAt(j, step) = Unit \div 10

\* the queue score as the claim writes it, times Unit:
\* max(0.1, 3.0 near + 2.0 medium + 1.0 far + min((t - last_green_end) / 60, 2.0)
\*            - 17.0 consecutive_greens)
StatedQueueScore(inter, t) ==
    Max(Unit \div 10,
        3 * Unit * inter.vehicles_near + 2 * Unit * inter.vehicles_medium
          + 1 * Unit * inter.vehicles_far
          + Min(((t - inter.last_green_end) * Unit) \div 60, 2 * Unit)
          - 17 * Unit * inter.consecutive_greens)

C21_PhaseOrdering ==
    [][\A i \in Approaches :
          LET before == LightOf(i)
              after == intersections'[i].current_light
              red_after == after \in {"RED", "R"}
          IN  \/ after = before
              \/ IsRed(i) /\ red_after
              \/ /\ IsRed(i) /\ after = "G"
                 /\ SelectionTick /\ active_idx' = i
                 /\ \A j \in Approaches : IsRed(j)
              \/ before = "G" /\ after = "Y"
              \/ before = "Y" /\ red_after]_vars

\* a third green is running: two full cycles went through all the changes
C21_Witness ==
    \E i \in Approaches :
        /\ cycle_count = 2
        /\ LightOf(i) = "G"
        /\ step > intersections[i].state_start + 1

\* the sensed intersections with the winner's count incremented
Incremented(w) ==
    [i \in Approaches |->
        IF i = w THEN [Sensed[i] EXCEPT !.consecutive_greens = @ + 1]
        ELSE Sensed[i]]

\* C22: at a winner selection the planned duration is the green time of
\* get_priority(winner, step) evaluated with the winner's consecutive_greens
\* already incremented.
C22_GreenAfterIncrement ==
    [][SelectionTick =>
          intersections'[active_idx'].planned_duration
              \in calculate_green_time(mode,
                      get_priority(mode, Incremented(active_idx'), active_idx', step))]_vars

\* a winner with one vehicle per zone (score above 6.0 in the winner loop) has
\* just been given the 10.2 s of the floor score
C22_Witness ==
    \E i \in Approaches :
        /\ mode = "queue"
        /\ active_idx = i
        /\ step = intersections[i].state_start + 1
        /\ intersections[i].vehicles_near = 1
        /\ intersections[i].vehicles_medium = 1
        /\ intersections[i].vehicles_far = 1
        /\ intersections[i].consecutive_greens = 1
        /\ intersections[i].planned_duration = 102

\* C23: with unit ticks, a GREEN entered at tick t with planned duration d
\* becomes YELLOW in the first tick t' with t' - t >= d, and the YELLOW becomes
\* RED in the first tick t'' with t'' - t' >= YELLOW_TIME (a phase changes in a
\* tick exactly if its time is up, and restarts state_start); no GREEN lasts
\* fewer than G_MIN or more than G_MAX ticks and no YELLOW more than
\* YELLOW_TIME, so RED follows a GREEN within G_MAX + YELLOW_TIME ticks.
C23_PhaseTiming ==
    [][\A i \in Approaches :
          LET inter == intersections[i]
              after == intersections'[i]
              elapsed == step - inter.state_start
          IN  /\ inter.current_light = "G" =>
                    /\ elapsed <= G_MAX
                    /\ (after.current_light = "Y") <=> (elapsed * 10 >= inter.planned_duration)
                    /\ after.current_light = "Y" =>
                          (elapsed >= G_MIN /\ after.state_start = step)
                    /\ after.current_light \in {"G", "Y"}
              /\ inter.current_light = "Y" =>
                    /\ elapsed <= YELLOW_TIME
                    /\ (after.current_light = "R") <=> (elapsed >= YELLOW_TIME)
                    /\ after.current_light \in {"Y", "R"}]_vars

\* a green planned for 10.2 s has just become yellow, in its 11th tick
C23_Witness ==
    \E i \in Approaches :
        /\ cycle_count >= 1
        /\ LightOf(i) = "Y"
        /\ intersections[i].planned_duration = 102
        /\ intersections[i].state_start = all_red_start + ALL_RED_TIME + 11
        /\ step = intersections[i].state_start + 1

\* C24: in the gap that starts when a YELLOW ends at tick e (all_red_start),
\* all approaches stay RED until tick e + ALL_RED_TIME; the winner selection
\* runs in that tick and in no other one of the gap, it ends the gap, and no
\* approach is commanded GREEN in a tick without a selection.
C24_AllRedGap ==
    [][/\ is_all_red =>
             /\ \A i \in Approaches : IsRed(i)
             /\ step <= all_red_start + ALL_RED_TIME
       /\ SelectionTick <=> (is_all_red /\ step = all_red_start + ALL_RED_TIME)
       /\ (is_all_red /\ ~SelectionTick) =>
             /\ is_all_red'
             /\ all_red_start' = all_red_start
             /\ \A i \in Approaches : intersections'[i].current_light \in {"RED", "R"}
       /\ SelectionTick =>
             /\ ~is_all_red'
             /\ Cardinality({i \in Approaches : intersections'[i].current_light = "G"}) = 1
       /\ \A i \in Approaches :
             (intersections'[i].current_light = "G" /\ LightOf(i) # "G") => SelectionTick]_vars

\* the green that followed the gap of a completed cycle, selected in the tick
\* ALL_RED_TIME after the yellow's end
C24_Witness ==
    \E i \in Approaches :
        /\ cycle_count >= 1
        /\ ~is_all_red
        /\ LightOf(i) = "G"
        /\ intersections[i].state_start = all_red_start + ALL_RED_TIME
        /\ step = intersections[i].state_start + 1

\* approach i goes YELLOW -> RED in this step
YellowEnds(i) == LightOf(i) = "Y" /\ intersections'[i].current_light = "R"

\* C25: in the tick in which the active approach goes YELLOW -> RED its
\* last_green_end becomes the tick, active_idx -1, is_all_red true,
\* all_red_start the tick, and cycle_count grows by exactly 1; in every other
\* tick cycle_count and every last_green_end stay as they are (so cycle_count,
\* 0 at the start, counts the completed GREEN-YELLOW-RED cycles).
C25_EndOfYellow ==
    [][/\ \A i \in Approaches :
             YellowEnds(i) =>
                /\ i = active_idx
                /\ intersections'[i].last_green_end = step
                /\ active_idx' = -1
                /\ is_all_red'
                /\ all_red_start' = step
                /\ cycle_count' = cycle_count + 1
       /\ \A i \in Approaches :
             ~YellowEnds(i) =>
                intersections'[i].last_green_end = intersections[i].last_green_end
       /\ (\A i \in Approaches : ~YellowEnds(i)) => cycle_count' = cycle_count]_vars

\* the second cycle has just been completed, by approach i
C25_Witness ==
    \E i \in Approaches :
        /\ cycle_count = 2
        /\ is_all_red
        /\ active_idx = -1
        /\ all_red_start = step - 1
        /\ intersections[i].last_green_end = all_red_start
        /\ LightOf(i) = "R"

\* the longest cycle: a GREEN of G_MAX, the YELLOW and the gap
CycleTicks == G_MAX + YELLOW_TIME + ALL_RED_TIME

\* the driver calls run_step for at least one more longest cycle
KeepsCalling == step + CycleTicks <= horizon

\* C26: while the driver keeps calling run_step with ticks growing by one,
\* every GREEN is followed by YELLOW and every YELLOW by RED, every gap is
\* followed by a GREEN, and cycle_count grows beyond every value it has.
C26_NoTerminalState ==
    /\ \A i \in Approaches :
          /\ (LightOf(i) = "G" /\ KeepsCalling) ~> (LightOf(i) = "Y")
          /\ (LightOf(i) = "Y" /\ KeepsCalling) ~> (LightOf(i) = "R")
    /\ (is_all_red /\ KeepsCalling) ~> (\E i \in Approaches : LightOf(i) = "G")
    /\ \A n \in 0..(LiveSteps \div (G_MIN + YELLOW_TIME + ALL_RED_TIME)) :
          (cycle_count = n /\ KeepsCalling) ~> (cycle_count > n)

\* a fourth cycle is under way, with calls enough for one more
C26_Witness ==
    /\ cycle_count = 3
    /\ KeepsCalling
    /\ \E i \in Approaches : LightOf(i) = "G" /\ step > intersections[i].state_start + 1

\* the branch "else: is_all_red = True" of run_step would run in this state
FallbackBranch == ~is_all_red /\ active_idx = -1

\* C27: the winner computed in the gap is always one of the approaches 0, 1,
\* 2, never -1; the gap is never left without an active approach commanded
\* GREEN; and no state lets the fallback branch (is_all_red false, active_idx
\* -1) run.
C27_WinnerIsApproach ==
    /\ [](~FallbackBranch)
    /\ [](~is_all_red => active_idx \in Approaches /\ NonRed(active_idx))
    /\ [][SelectionTick =>
             /\ FindWinner(mode, Sensed, step).winner \in Approaches
             /\ active_idx' = FindWinner(mode, Sensed, step).winner
             /\ ~is_all_red'
             /\ intersections'[active_idx'].current_light = "G"]_vars

\* the first selection, with no vehicle anywhere: every score is at the floor
C27_Witness ==
    /\ step = ALL_RED_TIME + 1
    /\ \A i \in Approaches : traffic[i] = NoTraffic
    /\ ~is_all_red
    /\ active_idx = 0
    /\ LightOf(0) = "G"

\* the detection fields of an approach: flags and timers, zone counts
Detection(inter) ==
    <<inter.near_sensor_occupied, inter.far_sensor_occupied,
      inter.near_detect_time, inter.far_detect_time,
      inter.vehicles_near, inter.vehicles_medium, inter.vehicles_far,
      inter.total_queue_length>>

\* C28: run_step at tick t leaves every approach with the detection fields
\* sensed from the vehicles of tick t, and a winner selection at tick t picks
\* the winner of the scores computed from those fields, not from the fields
\* tick t - 1 left.
C28_SameTickFreshness ==
    [][(RunStepBinary \/ RunStepQueue) =>
          /\ \A i \in Approaches :
                Detection(intersections'[i]) = Detection(Sensed[i])
          /\ SelectionTick =>
                active_idx' = FindWinner(mode, Sensed, step).winner]_vars

\* the far sensor of approach 2 became occupied in the very tick of the second
\* selection and approach 2 won it; by the fields of the tick before, approach
\* 1, as long unserved and with a lower index, would have won
C28_Witness ==
    /\ mode = "binary"
    /\ cycle_count = 1
    /\ active_idx = 2
    /\ LightOf(2) = "G"
    /\ step = intersections[2].state_start + 1
    /\ intersections[2].far_sensor_occupied
    /\ far_run[2] = SENSOR_DELAY + 1
    /\ near_run[2] <= SENSOR_DELAY + 1
    /\ intersections[2].last_green_end = 0
    /\ intersections[1].last_green_end = 0
    /\ ~intersections[1].near_sensor_occupied
    /\ ~intersections[1].far_sensor_occupied

\* the fields of an approach that sensing has no business with
Control(inter) ==
    <<inter.id, inter.current_light, inter.state_start, inter.planned_duration,
      inter.last_green_end, inter.consecutive_greens>>

\* the sensing of this tick, had approach j reported the vehicles f instead
SensedWith(j, f) ==
    LET feed == [vehicle_ids EXCEPT ![j] = f]
    IN  IF mode = "binary" THEN update_sensors(intersections, feed, step)
        ELSE measure_queue_length(intersections, feed)

\* C29: the sensing of a tick (update_sensors / measure_queue_length) leaves
\* current_light, state_start, planned_duration, last_green_end and
\* consecutive_greens of every approach as they were, changes only the
\* detection fields of its controller (flags and timers, or zone counts), and
\* what it leaves for an approach does not depend on the vehicles of another.
C29_SensingFrame ==
    \A i \in Approaches :
        /\ Control(Sensed[i]) = Control(intersections[i])
        /\ mode = "binary" =>
              /\ Sensed[i].vehicles_near = intersections[i].vehicles_near
              /\ Sensed[i].vehicles_medium = intersections[i].vehicles_medium
              /\ Sensed[i].vehicles_far = intersections[i].vehicles_far
              /\ Sensed[i].total_queue_length = intersections[i].total_queue_length
        /\ mode = "queue" =>
              /\ Sensed[i].near_sensor_occupied = intersections[i].near_sensor_occupied
              /\ Sensed[i].far_sensor_occupied = intersections[i].far_sensor_occupied
              /\ Sensed[i].near_detect_time = intersections[i].near_detect_time
              /\ Sensed[i].far_detect_time = intersections[i].far_detect_time
        /\ \A j \in Approaches \ {i} : \A f \in Feeds(mode) :
              SensedWith(j, f)[i] = Sensed[i]

\* the sensing changes the detection fields of an approach that is GREEN in
\* a later cycle, while another approach has vehicles
C29_Witness ==
    \E i \in Approaches :
        /\ LightOf(i) = "G"
        /\ cycle_count >= 1
        /\ intersections[i].consecutive_greens >= 1
        /\ intersections[i].last_green_end > 0
        /\ intersections[i].planned_duration > 0
        /\ Detection(Sensed[i]) # Detection(intersections[i])
        /\ \E j \in Approaches \ {i} : traffic[j] # NoTraffic

\* C30: before the first call (step 0) every approach is RED with all its
\* counters and timers 0, active_idx is -1, is_all_red true, all_red_start
\* and cycle_count 0; run_step(0) commands no GREEN and selects nothing; the
\* first winner selection is that of tick ALL_RED_TIME, which gives the first
\* GREEN.
C30_InitialBehaviour ==
    /\ step = 0 =>
          /\ \A i \in Approaches : intersections[i] = IntersectionState(i) /\ IsRed(i)
          /\ active_idx = -1
          /\ is_all_red
          /\ all_red_start = 0
          /\ cycle_count = 0
    /\ step < ALL_RED_TIME => ~SelectionTick
    /\ step <= ALL_RED_TIME =>
          /\ \A i \in Approaches : IsRed(i)
          /\ active_idx = -1
          /\ is_all_red
    /\ step = ALL_RED_TIME => SelectionTick
    /\ step = ALL_RED_TIME + 1 =>
          /\ cycle_count = 0
          /\ active_idx \in Approaches
          /\ LightOf(active_idx) = "G"
          /\ intersections[active_idx].state_start = ALL_RED_TIME

\* the first GREEN, given at tick ALL_RED_TIME, while vehicles wait elsewhere
C30_Witness ==
    /\ step = ALL_RED_TIME + 1
    /\ active_idx = 0
    /\ LightOf(0) = "G"
    /\ intersections[0].state_start = ALL_RED_TIME
    /\ intersections[0].consecutive_greens = 1
    /\ traffic[1] # NoTraffic

\* C31 as stated: whatever the tick s, 0 included, at which a candidate
\* becomes true and stays true, its flag is false through tick
\* s + SENSOR_DELAY - 1 and true from tick s + SENSOR_DELAY on: after a tick
\* the flag is true exactly when the run has reached SENSOR_DELAY + 1 ticks.
C31_DebounceFromAnyTick ==
    \A i \in Approaches :
        /\ intersections[i].near_sensor_occupied <=> near_run[i] >= SENSOR_DELAY + 1
        /\ intersections[i].far_sensor_occupied <=> far_run[i] >= SENSOR_DELAY + 1

\* C32: in binary mode the winner of a selection is never the approach that
\* won the selection before it (the one whose consecutive_greens is not 0),
\* so consecutive_greens is 0 or 1 for every approach in every state.
C32_NoRepeatedWinnerBinary ==
    /\ [](mode = "binary" =>
             \A i \in Approaches : intersections[i].consecutive_greens \in {0, 1})
    /\ [][(mode = "binary" /\ SelectionTick) =>
             \A i \in Approaches :
                 Sensed[i].consecutive_greens >= 1 => active_idx' # i]_vars

\* the last winner j holds both flags at the next selection, which goes to an
\* approach a without any
C32_Witness ==
    /\ mode = "binary"
    /\ cycle_count >= 1
    /\ active_idx \in Approaches
    /\ LightOf(active_idx) = "G"
    /\ step = intersections[active_idx].state_start + 1
    /\ ~intersections[active_idx].near_sensor_occupied
    /\ ~intersections[active_idx].far_sensor_occupied
    /\ \E j \in Approaches \ {active_idx} :
          /\ intersections[j].last_green_end = all_red_start
          /\ intersections[j].near_sensor_occupied
          /\ intersections[j].far_sensor_occupied

\* C33: in binary mode no planned green duration exceeds G_MIN + 7.5 = 17.5 s
\* (175 tenths), so G_MAX is never allocated.
C33_BinaryGreenAtMost ==
    mode = "binary" =>
        \A i \in Approaches :
            /\ intersections[i].planned_duration <= 10 * G_MIN + 75
            /\ intersections[i].planned_duration < 10 * G_MAX

\* an approach unserved for 120 ticks and more wins with both flags set and
\* is given the 17.5 s
C33_Witness ==
    \E i \in Approaches :
        /\ mode = "binary"
        /\ LightOf(i) = "G"
        /\ active_idx = i
        /\ intersections[i].near_sensor_occupied
        /\ intersections[i].far_sensor_occupied
        /\ intersections[i].state_start >= WAIT_DIV_BINARY
        /\ intersections[i].last_green_end = 0
        /\ intersections[i].planned_duration = 10 * G_MIN + 75

\* C34: in binary mode near_sensor_occupied implies far_sensor_occupied in
\* every state, so the demand part of a score is 0, 2 or 3 and never 1.
C34_NearImpliesFar ==
    mode = "binary" =>
        \A i \in Approaches :
            /\ intersections[i].near_sensor_occupied => intersections[i].far_sensor_occupied
            /\ raw_demand(intersections[i]) \in {0, 2 * Unit, 3 * Unit}
            /\ raw_demand(Sensed[i]) \in {0, 2 * Unit, 3 * Unit}

\* the near flag was set after the far flag, by a shorter run
C34_Witness ==
    \E i \in Approaches :
        /\ mode = "binary"
        /\ intersections[i].near_sensor_occupied
        /\ intersections[i].far_sensor_occupied
        /\ near_run[i] = SENSOR_DELAY + 1
        /\ far_run[i] > near_run[i]

\* C35: in binary mode no occupancy flag is true at the first selection (tick
\* ALL_RED_TIME = 1), every score there is the floor 0.1, and the first GREEN
\* goes to approach 0, whatever the traffic.
C35_FirstGreenBinary ==
    mode = "binary" =>
        /\ step = ALL_RED_TIME =>
              \A i \in Approaches :
                  /\ ~Sensed[i].near_sensor_occupied
                  /\ ~Sensed[i].far_sensor_occupied
                  /\ ScoreNow(i) = Unit \div 10
        /\ step = ALL_RED_TIME + 1 =>
              /\ active_idx = 0
              /\ LightOf(0) = "G"
              /\ intersections[0].state_start = ALL_RED_TIME
              /\ \A i \in Approaches \ {0} : IsRed(i)

\* approach 0 has the first GREEN although only approach 1 had a stopped
\* vehicle at its sensors, in both ticks so far
C35_Witness ==
    /\ mode = "binary"
    /\ step = ALL_RED_TIME + 1
    /\ active_idx = 0
    /\ LightOf(0) = "G"
    /\ near_run[0] = 0
    /\ far_run[0] = 0
    /\ near_run[1] = step
    /\ far_run[1] = step

\* C36: in every state is_all_red holds exactly when active_idx = -1; the
\* light of an active approach is GREEN or YELLOW; and with active_idx = -1
\* every light is RED.
C36_ControllerConsistency ==
    /\ is_all_red <=> active_idx = -1
    /\ active_idx \in Approaches \cup {-1}
    /\ active_idx # -1 => NonRed(active_idx)
    /\ active_idx = -1 => \A i \in Approaches : IsRed(i)

\* the gap after the first cycle: the light that was YELLOW is red again
C36_Witness ==
    /\ cycle_count = 1
    /\ is_all_red
    /\ active_idx = -1
    /\ step = all_red_start + 1
    /\ \E i \in Approaches :
          intersections[i].last_green_end = all_red_start /\ LightOf(i) = "R"

\* the approaches that won the most recent selection (none before the first)
LastWinners ==
    IF step <= ALL_RED_TIME THEN {}
    ELSE {i \in Approaches : passed_over[i] = 0}

\* C37: at most one approach has consecutive_greens > 0, none before the
\* first selection, and after it exactly the winner of the most recent one.
C37_OneRunningCount ==
    /\ Cardinality({i \in Approaches : intersections[i].consecutive_greens > 0}) <= 1
    /\ Cardinality(LastWinners) <= 1
    /\ {i \in Approaches : intersections[i].consecutive_greens > 0} = LastWinners

\* the queue controller in the gap after an approach's second green in a row
C37_Witness ==
    \E i \in Approaches :
        /\ is_all_red
        /\ cycle_count = 2
        /\ intersections[i].consecutive_greens = 2
        /\ intersections[i].last_green_end = all_red_start
        /\ passed_over[i] = 0

(***************************************************************************)
(* The controllers of run_simulation_binary_with_seeds.py and              *)
(* run_simulation_queue_with_seeds.py, as functions of the controller's    *)
(* fields.  Scores are in Unit, green times in TimeUnit, speeds in tenths. *)
(***************************************************************************)
\* the constants of the two files
SeedsBinary ==
    [G_MIN |-> 10, G_MAX |-> 40, YELLOW_TIME |-> 3, ALL_RED_TIME |-> 1,
     NEAR_SENSOR_DISTANCE |-> 20, FAR_SENSOR_DISTANCE |-> 50, SENSOR_DELAY |-> 10]

SeedsQueue ==
    [G_MIN |-> 10, G_MAX |-> 40, YELLOW_TIME |-> 3, ALL_RED_TIME |-> 1,
     ZONE_NEAR |-> 25, ZONE_MEDIUM |-> 60, ZONE_FAR |-> 100,
     WEIGHT_NEAR |-> 3, WEIGHT_MEDIUM |-> 2, WEIGHT_FAR |-> 1]

Seeds(m) == IF m = "binary" THEN SeedsBinary ELSE SeedsQueue

\* IntersectionState.__init__ and SimulationController.__init__ of the two files
SeededInit ==
    [intersections |->
        [i \in Approaches |->
            [id |-> i, near_sensor_occupied |-> FALSE, far_sensor_occupied |-> FALSE,
             current_light |-> "RED", last_green_end |-> 0, state_start |-> 0,
             planned_duration |-> 0, consecutive_greens |-> 0,
             near_detect_time |-> 0, far_detect_time |-> 0,
             vehicles_near |-> 0, vehicles_medium |-> 0, vehicles_far |-> 0,
             total_queue_length |-> 0]],
     active_idx |-> -1, is_all_red |-> TRUE, all_red_start |-> 0, cycle_count |-> 0]

\* one signal of update_sensors: [detect_time, occupied] after the tick
SeededDebounce(detected, detect_time, now) ==
    IF detected
    THEN LET started == IF detect_time = 0 THEN now ELSE detect_time
         IN  [detect_time |-> started,
              occupied |-> (now - started) >= SeedsBinary.SENSOR_DELAY]
    ELSE [detect_time |-> 0, occupied |-> FALSE]

\* update_sensors of the binary file, for one approach with vehicles vs
SeededUpdateSensors(inter, vs, now) ==
    LET nearNow == \E k \in 1 .. Len(vs) :
                      vs[k].dist <= SeedsBinary.NEAR_SENSOR_DISTANCE /\ vs[k].speed < 5
        farNow == \E k \in 1 .. Len(vs) :
                      vs[k].dist <= SeedsBinary.FAR_SENSOR_DISTANCE /\ vs[k].speed < 5
        near == SeededDebounce(nearNow, inter.near_detect_time, now)
        far == SeededDebounce(farNow, inter.far_detect_time, now)
    IN  [inter EXCEPT !.near_detect_time = near.detect_time,
                      !.near_sensor_occupied = near.occupied,
                      !.far_detect_time = far.detect_time,
                      !.far_sensor_occupied = far.occupied]

\* the zone the if / elif chain of measure_queue_length counts a vehicle in
SeededZone(v) ==
    IF ~(v.speed < 20) THEN "none"
    ELSE IF v.dist <= SeedsQueue.ZONE_NEAR THEN "near"
    ELSE IF v.dist <= SeedsQueue.ZONE_MEDIUM THEN "medium"
    ELSE IF v.dist <= SeedsQueue.ZONE_FAR THEN "far"
    ELSE "none"

\* measure_queue_length of the queue file, for one approach with vehicles vs
SeededMeasureQueueLength(inter, vs) ==
    LET count(z) == Cardinality({k \in 1 .. Len(vs) : SeededZone(vs[k]) = z})
    IN  [inter EXCEPT !.vehicles_near = count("near"),
                      !.vehicles_medium = count("medium"),
                      !.vehicles_far = count("far"),
                      !.total_queue_length = count("near") + count("medium") + count("far")]

\* the sensing at the head of run_step; a vehicle list whose read raises is []
SeededSense(m, inters, feed, ok, now) ==
    [i \in Approaches |->
        LET vs == IF ok[i] THEN feed[i] ELSE << >>
        IN  IF m = "binary" THEN SeededUpdateSensors(inters[i], vs, now)
            ELSE SeededMeasureQueueLength(inters[i], vs)]

\* get_priority of the two files
SeededPriority(m, inter, now) ==
    IF m = "binary"
    THEN Max((IF inter.near_sensor_occupied THEN Unit ELSE 0)
               + (IF inter.far_sensor_occupied THEN 2 * Unit ELSE 0)
               + Min(((now - inter.last_green_end) * Unit) \div 120, Unit)
               - inter.consecutive_greens * 3 * Unit,
             Unit \div 10)
    ELSE Max((inter.vehicles_near * SeedsQueue.WEIGHT_NEAR
                + inter.vehicles_medium * SeedsQueue.WEIGHT_MEDIUM
                + inter.vehicles_far * SeedsQueue.WEIGHT_FAR) * Unit
               + Min(((now - inter.last_green_end) * Unit) \div 60, 2 * Unit)
               - inter.consecutive_greens * 17 * Unit,
             Unit \div 10)

\* G_MIN + priority * 7.5 (binary) or * 1.5 (queue), min(max(., G_MIN), G_MAX),
\* round(., 1): the tenths it may give
SeededGreenTime(m, priority) ==
    LET slope == IF m = "binary" THEN 15 ELSE 3
        green_time == Seeds(m).G_MIN * TimeUnit + (priority * slope * TimeUnit) \div (2 * Unit)
    IN  Round1(Min(Max(green_time, Seeds(m).G_MIN * TimeUnit), Seeds(m).G_MAX * TimeUnit))

\* variant: a later approach with an equal score takes over
SeededWinnerLast(m, inters, now) ==
    LET p(i) == SeededPriority(m, inters[i], now)
        a0 == IF p(0) >= -1 * Unit THEN [winner |-> 0, top_priority |-> p(0)]
              ELSE [winner |-> -1, top_priority |-> -1 * Unit]
        a1 == IF p(1) >= a0.top_priority THEN [winner |-> 1, top_priority |-> p(1)] ELSE a0
        a2 == IF p(2) >= a1.top_priority THEN [winner |-> 2, top_priority |-> p(2)] ELSE a1
    IN  a2.winner

\* winner = -1; top_priority = -1.0; for i in range(3): if p > top_priority
SeededWinner(m, inters, now) ==
    LET p(i) == SeededPriority(m, inters[i], now)
        a0 == IF p(0) > -1 * Unit THEN [winner |-> 0, top_priority |-> p(0)]
              ELSE [winner |-> -1, top_priority |-> -1 * Unit]
        a1 == IF p(1) > a0.top_priority THEN [winner |-> 1, top_priority |-> p(1)] ELSE a0
        a2 == IF p(2) > a1.top_priority THEN [winner |-> 2, top_priority |-> p(2)] ELSE a1
    IN  a2.winner

\* the selection: the others red, the winner started, counted, timed and green
SeededSelect(m, c, sensed, now) ==
    LET winner == SeededWinner(m, sensed, now)
        reds == [i \in Approaches |->
                    IF i # winner THEN [sensed[i] EXCEPT !.current_light = Upper("r")]
                    ELSE sensed[i]]
        counted == [i \in Approaches |->
                       IF i = winner
                       THEN [reds[i] EXCEPT !.state_start = now,
                                            !.consecutive_greens = @ + 1]
                       ELSE [reds[i] EXCEPT !.consecutive_greens = 0]]
        granted(d) == [i \in Approaches |->
                          IF i = winner
                          THEN [counted[i] EXCEPT !.planned_duration = d,
                                                  !.current_light = Upper("G")]
                          ELSE counted[i]]
    IN  IF winner # -1
        THEN {[c EXCEPT !.is_all_red = FALSE, !.active_idx = winner,
                        !.intersections = granted(d)] :
                 d \in SeededGreenTime(m, SeededPriority(m, counted[winner], now))}
        ELSE {[c EXCEPT !.is_all_red = FALSE, !.intersections = reds]}

\* the branch "elif self.active_idx != -1"
SeededMonitor(m, c, sensed, now) ==
    LET a == c.active_idx
        inter == sensed[a]
        elapsed == now - inter.state_start
        relit(light) == [i \in Approaches |->
                            IF i = a THEN [sensed[i] EXCEPT !.current_light = light] ELSE sensed[i]]
    IN  IF inter.current_light = "G" /\ elapsed * 10 >= inter.planned_duration
        THEN [c EXCEPT !.intersections =
                 [i \in Approaches |->
                     IF i = a THEN [relit(Upper("y"))[i] EXCEPT !.state_start = now]
                     ELSE sensed[i]]]
        ELSE IF inter.current_light = "Y" /\ elapsed >= Seeds(m).YELLOW_TIME
        THEN [c EXCEPT !.intersections =
                 [i \in Approaches |->
                     IF i = a THEN [relit(Upper("r"))[i] EXCEPT !.last_green_end = now]
                     ELSE sensed[i]],
                       !.active_idx = -1, !.is_all_red = TRUE,
                       !.all_red_start = now, !.cycle_count = @ + 1]
        ELSE [c EXCEPT !.intersections = sensed]

\* run_step of the two files: the controllers it may leave; raises says that
\* the waiting-time loop, outside any try, raised
SeededRunStep(m, c, feed, ok, now) ==
    LET sensed == SeededSense(m, c.intersections, feed, ok, now)
        raises == \E i \in Approaches : ~ok[i]
    IN  IF raises THEN {[c EXCEPT !.intersections = sensed]}
        ELSE IF c.is_all_red
        THEN IF (now - c.all_red_start) >= Seeds(m).ALL_RED_TIME
             THEN SeededSelect(m, c, sensed, now)
             ELSE {[c EXCEPT !.intersections = sensed]}
        ELSE IF c.active_idx # -1
        THEN {SeededMonitor(m, c, sensed, now)}
        ELSE {[c EXCEPT !.intersections = sensed, !.is_all_red = TRUE,
                        !.all_red_start = now]}

\* the fields of the controller of run_simulation_binary.py / _queue_based.py
Controller ==
    [intersections |-> intersections, active_idx |-> active_idx,
     is_all_red |-> is_all_red, all_red_start |-> all_red_start,
     cycle_count |-> cycle_count]

\* C38: the seeded controllers start in the state the unseeded start in, and
\* from every state, on the vehicles of the tick, run_step of the seeded
\* file leaves exactly the controller states (lights included) that run_step
\* of the unseeded file leaves.
C38_SeededSameMachine ==
    /\ [](step = 0 => Controller = SeededInit)
    /\ [][(RunStepBinary \/ RunStepQueue) =>
             LET seeded == SeededRunStep(mode, Controller, traffic, readable, step)
             IN  /\ Controller' \in seeded
                 /\ Cardinality(seeded) =
                        IF ~WaitingTimeRaises /\ SelectionTick
                        THEN Cardinality(SelectWinner(mode, Sensed, step))
                        ELSE 1]_vars

\* the third selection of the queue controller, after a change of traffic
C38_Witness ==
    /\ mode = "queue"
    /\ cycle_count = 2
    /\ active_idx \in Approaches
    /\ LightOf(active_idx) = "G"
    /\ step = intersections[active_idx].state_start + 1
    /\ step > HoldTicks
    /\ intersections[active_idx].planned_duration > 10 * G_MIN + 2

=============================================================================
